---- MODULE Spec2Model ----
(***************************************************************************)
(* miniDB: the Database class (src/miniDB/database.py) run by several      *)
(* operating-system processes over one database directory.                 *)
(*                                                                         *)
(* disk   : the pickled artifacts of the directory (one per table, the     *)
(*          four meta tables).                                             *)
(* mem[p] : process p's Database.tables dictionary.                        *)
(* A Database method is a sequence of file reads and writes; every step    *)
(* below is one such read/write together with the in-memory computation    *)
(* that precedes it, so processes interleave between file operations.      *)
(***************************************************************************)
EXTENDS Integers, Sequences, FiniteSets, TLC

VARIABLES disk, mem, pc, cur, res, held

vars == <<disk, mem, pc, cur, res, held>>

-----------------------------------------------------------------------------
(* Bounds *)

MaxRows == 3      \* longest row sequence a table may grow to
MaxKey  == 3      \* integer literals 1..MaxKey appear in rows and conditions

Procs      == {1, 2}                       \* os.getpid() of each process
UserTables == {"t1", "t2"}
MetaTables == {"meta_length", "meta_locks", "meta_insert_stack", "meta_indexes"}

\* table_name[:4]=='meta'
IsMeta(n) == n \in MetaTables

Absent == [rows |-> <<>>, types |-> <<>>]  \* no entry / no file for the name

-----------------------------------------------------------------------------
(* Values: Python None, int and str *)

NoneV   == [ty |-> "none", i |-> 0, s |-> ""]
IntV(n) == [ty |-> "int",  i |-> n, s |-> ""]
StrV(x) == [ty |-> "str",  i |-> 0, s |-> x]
BadV    == [ty |-> "bad",  i |-> 0, s |-> ""]   \* a conversion that raised

\* decimal strings the model uses, and what int() makes of them
Digits == {"0", "1", "2", "3", "4", "7"}
ParseInt(x) ==
    CASE x = "0" -> 0 [] x = "1" -> 1 [] x = "2" -> 2 [] x = "3" -> 3
      [] x = "4" -> 4 [] x = "7" -> 7 [] OTHER -> -1
ShowInt(n) ==
    CASE n = 0 -> "0" [] n = 1 -> "1" [] n = 2 -> "2" [] n = 3 -> "3"
      [] n = 4 -> "4" [] n = 7 -> "7" [] OTHER -> "?"

\* type(value) for type in {int, str}; BadV when Python raises ValueError
Convert(v, ty) ==
    IF ty = "int"
    THEN IF v.ty = "int" THEN v
         ELSE IF v.ty = "str" /\ v.s \in Digits THEN IntV(ParseInt(v.s))
         ELSE BadV
    ELSE IF v.ty = "str" THEN v
         ELSE IF v.ty = "int" THEN StrV(ShowInt(v.i))
         ELSE BadV

\* Python truthiness of a cell, as used by any(row)
Truthy(v) == \/ v.ty = "int" /\ v.i # 0
             \/ v.ty = "str" /\ v.s # ""

-----------------------------------------------------------------------------
(* Record Store: a table is [rows, types]; columns are (id, name), the     *)
(* primary key is column 1.                                                *)

ColumnTypes == <<"int", "str">>
NumCols     == Len(ColumnTypes)
PkIdx       == 1

Tombstone == <<NoneV, NoneV>>
IsTomb(row) == \A c \in 1..NumCols : row[c] = NoneV

NewTable == [rows |-> <<>>, types |-> ColumnTypes]

\* get_op(operator, a, b); an empty cell satisfies no predicate
Holds(op, a, b) ==
    /\ a.ty = "int" /\ b.ty = "int"
    /\ CASE op = "="  -> a.i = b.i
         [] op = ">"  -> a.i > b.i
         [] op = "<"  -> a.i < b.i
         [] op = ">=" -> a.i >= b.i
         [] op = "<=" -> a.i <= b.i
         [] OTHER -> FALSE

Matches(row, cond) == Holds(cond.op, row[cond.col], IntV(cond.k))

\* positions of the rows matching cond, ascending
RECURSIVE MatchFrom(_, _, _)
MatchFrom(rows, cond, i) ==
    IF i > Len(rows) THEN <<>>
    ELSE (IF Matches(rows[i], cond) THEN <<i>> ELSE <<>>)
         \o MatchFrom(rows, cond, i + 1)
MatchPos(rows, cond) == MatchFrom(rows, cond, 1)

\* Table._insert(row, insert_stack): row is the list of strings of split(',')
TInsert(tb, row, stack) ==
    IF Len(row) # NumCols
    THEN [err |-> "SchemaMismatch", tb |-> tb]
    ELSE
    LET conv == [c \in 1..NumCols |-> Convert(StrV(row[c]), tb.types[c])]
        dup  == \E j \in 1..Len(tb.rows) :
                   /\ ~IsTomb(tb.rows[j])
                   /\ tb.rows[j][PkIdx] = conv[PkIdx]
    IN  IF \E c \in 1..NumCols : conv[c] = BadV
        THEN [err |-> "SchemaMismatch", tb |-> tb]
        ELSE IF dup
        THEN [err |-> "ConstraintViolation", tb |-> tb]
        ELSE IF stack # <<>>
        THEN IF stack[Len(stack)] \in 1..Len(tb.rows)
             THEN [err |-> "",
                   tb  |-> [tb EXCEPT !.rows[stack[Len(stack)]] = conv]]
             ELSE [err |-> "IndexError", tb |-> tb]
        ELSE [err |-> "", tb |-> [tb EXCEPT !.rows = Append(@, conv)]]

\* Table._delete_where(condition): tombstones the matching rows and returns
\* their positions
TDelete(tb, cond) ==
    LET del == MatchPos(tb.rows, cond)
    IN  [deleted |-> del,
         tb |-> [tb EXCEPT !.rows =
                   [j \in 1..Len(tb.rows) |->
                      IF Matches(tb.rows[j], cond) THEN Tombstone
                      ELSE tb.rows[j]]]]

\* Table._update_rows(value, column, condition): row by row; stops at the
\* first uniqueness violation and keeps the rows already written
RECURSIVE TUpdFrom(_, _, _, _, _)
TUpdFrom(rows, v, col, cond, i) ==
    IF i > Len(rows) THEN [err |-> "", rows |-> rows]
    ELSE IF ~Matches(rows[i], cond) THEN TUpdFrom(rows, v, col, cond, i + 1)
    ELSE IF col = PkIdx /\ \E j \in 1..Len(rows) :
                              j # i /\ ~IsTomb(rows[j]) /\ rows[j][col] = v
    THEN [err |-> "ConstraintViolation", rows |-> rows]
    ELSE TUpdFrom([rows EXCEPT ![i][col] = v], v, col, cond, i + 1)

TUpdate(tb, val, col, cond) ==
    LET v == Convert(StrV(val), tb.types[col])
    IN  IF v = BadV THEN [err |-> "SchemaMismatch", tb |-> tb]
        ELSE LET r == TUpdFrom(tb.rows, v, col, cond, 1)
             IN  [err |-> r.err, tb |-> [tb EXCEPT !.rows = r.rows]]

\* Table._cast_column(column, type): all or nothing
TCast(tb, col, ty) ==
    LET conv(v) == IF v = NoneV THEN NoneV ELSE Convert(v, ty)
    IN  IF \E j \in 1..Len(tb.rows) : conv(tb.rows[j][col]) = BadV
        THEN [err |-> "SchemaMismatch", tb |-> tb]
        ELSE [err |-> "",
              tb  |-> [rows  |-> [j \in 1..Len(tb.rows) |->
                                    [tb.rows[j] EXCEPT ![col] = conv(@)]],
                       types |-> [tb.types EXCEPT ![col] = ty]]]

\* Table._sort(column, asc): a reordered view; row positions are not
\* renumbered
TSort(tb, col, asc) == tb

-----------------------------------------------------------------------------
(* Database images.  An image is what Database.tables holds, or what the   *)
(* directory holds:                                                        *)
(*   tabs  : user table name -> table (Absent when there is none)          *)
(*   locks : rows of meta_locks         [tn, pid, mode]                    *)
(*   len   : rows of meta_length        table_name -> no_of_rows           *)
(*   stk   : rows of meta_insert_stack  table_name -> indexes              *)
(*   idx   : rows of meta_indexes       [tn, col, name, type]              *)
(* An image in memory also has attrs, the table names set as attributes of *)
(* the Database object (setattr in table_from_object, delattr in           *)
(* drop_table).                                                            *)
(* The directory also holds the index artifacts (art), which no            *)
(* load_database reads: records [name, entries], entries being the         *)
(* (key, row position) pairs put into the B-tree or hash structure.        *)

LockRec(t, p) == [tn |-> t, pid |-> p, mode |-> "x"]

\* meta_locks._select_where('pid', 'table_name=t').data
LockRows(locks, t) == {r \in locks : r.tn = t}
\* .data[0][0]
FirstPid(locks, t) == (CHOOSE r \in LockRows(locks, t) : TRUE).pid

\* load_database keeping the table entries the dictionary already has
load_database_keep(m, d) ==
    [tabs  |-> [n \in UserTables |->
                  IF m.tabs[n] # Absent THEN m.tabs[n] ELSE d.tabs[n]],
     locks |-> d.locks, len |-> d.len, stk |-> d.stk, idx |-> d.idx,
     attrs |-> m.attrs]

\* load_database: every .pkl of the directory replaces the entry of the same
\* name; entries without a file stay
load_database(m, d) ==
    [tabs  |-> [n \in UserTables |->
                  IF d.tabs[n] # Absent THEN d.tabs[n] ELSE m.tabs[n]],
     locks |-> d.locks, len |-> d.len, stk |-> d.stk, idx |-> d.idx,
     attrs |-> m.attrs]

\* save_database: every entry of Database.tables is dumped to its file
save_database(d, m) ==
    [tabs  |-> [n \in UserTables |->
                  IF m.tabs[n] # Absent THEN m.tabs[n] ELSE d.tabs[n]],
     locks |-> m.locks, len |-> m.len, stk |-> m.stk, idx |-> m.idx,
     art   |-> d.art]

\* _save_locks: only meta_locks.pkl is written
save_locks(d, m) == [d EXCEPT !.locks = m.locks]

\* len([row for row in table.data if any(row)])
RECURSIVE CountFrom(_, _)
CountFrom(rows, i) ==
    IF i > Len(rows) THEN 0
    ELSE (IF \E c \in 1..Len(rows[i]) : Truthy(rows[i][c]) THEN 1 ELSE 0)
         + CountFrom(rows, i + 1)
NonNoneRows(tb) == CountFrom(tb.rows, 1)

Present(m) == {n \in UserTables : m.tabs[n] # Absent}

\* _update_meta_length
update_meta_length(m) ==
    [m EXCEPT !.len = [n \in DOMAIN m.len \cup Present(m) |->
                         IF n \in Present(m) THEN NonNoneRows(m.tabs[n])
                         ELSE m.len[n]]]

\* _update_meta_insert_stack
update_meta_insert_stack(m) ==
    [m EXCEPT !.stk = [n \in DOMAIN m.stk \cup Present(m) |->
                         IF n \in DOMAIN m.stk THEN m.stk[n] ELSE <<>>]]

\* _update
update_meta(m) == update_meta_insert_stack(update_meta_length(m))

\* lock_table without the _save_locks after the insert
lock_table_unsaved(p, t, m, d) ==
    IF IsMeta(t) \/ m.tabs[t] = Absent
    THEN [ret |-> "None", owner |-> 0, m |-> m, d |-> d]
    ELSE LET m1 == [m EXCEPT !.locks = d.locks]
         IN  IF LockRows(m1.locks, t) # {}
             THEN IF FirstPid(m1.locks, t) # p
                  THEN [ret |-> "Locked", owner |-> FirstPid(m1.locks, t),
                        m |-> m1, d |-> d]
                  ELSE [ret |-> "False", owner |-> p, m |-> m1, d |-> d]
             ELSE [ret |-> "True", owner |-> p,
                   m |-> [m1 EXCEPT !.locks = @ \cup {LockRec(t, p)}],
                   d |-> d]

\* lock_table answering True to the owner of the record
lock_table_reacquire(p, t, m, d) ==
    IF IsMeta(t) \/ m.tabs[t] = Absent
    THEN [ret |-> "None", owner |-> 0, m |-> m, d |-> d]
    ELSE LET m1 == [m EXCEPT !.locks = d.locks]
             m2 == [m1 EXCEPT !.locks = @ \cup {LockRec(t, p)}]
         IN  IF LockRows(m1.locks, t) # {} /\ FirstPid(m1.locks, t) # p
             THEN [ret |-> "Locked", owner |-> FirstPid(m1.locks, t),
                   m |-> m1, d |-> d]
             ELSE [ret |-> "True", owner |-> p, m |-> m2,
                   d |-> [d EXCEPT !.locks = m2.locks]]

\* lock_table without the comparison of the record's pid with os.getpid()
lock_table_nocheck(p, t, m, d) ==
    IF IsMeta(t) \/ m.tabs[t] = Absent
    THEN [ret |-> "None", owner |-> 0, m |-> m, d |-> d]
    ELSE LET m1 == [m EXCEPT !.locks = d.locks]
             m2 == [m1 EXCEPT !.locks = @ \cup {LockRec(t, p)}]
         IN  IF LockRows(m1.locks, t) # {}
             THEN [ret |-> "False", owner |-> p, m |-> m1, d |-> d]
             ELSE [ret |-> "True", owner |-> p, m |-> m2,
                   d |-> [d EXCEPT !.locks = m2.locks]]

\* lock_table without the table_name[:4]=='meta' test
lock_table_meta(p, t, m, d) ==
    IF ~IsMeta(t) /\ m.tabs[t] = Absent
    THEN [ret |-> "None", owner |-> 0, m |-> m, d |-> d]
    ELSE LET m1 == [m EXCEPT !.locks = d.locks]
         IN  IF LockRows(m1.locks, t) # {}
             THEN IF FirstPid(m1.locks, t) # p
                  THEN [ret |-> "Locked", owner |-> FirstPid(m1.locks, t),
                        m |-> m1, d |-> d]
                  ELSE [ret |-> "False", owner |-> p, m |-> m1, d |-> d]
             ELSE LET m2 == [m1 EXCEPT !.locks = @ \cup {LockRec(t, p)}]
                  IN  [ret |-> "True", owner |-> p, m |-> m2,
                       d |-> save_locks(d, m2)]

\* lock_table(t) by process p: the return value (or "Locked" when it
\* raises), the owner it names, and the images it leaves
lock_table(p, t, m, d) ==
    IF IsMeta(t) \/ m.tabs[t] = Absent
    THEN [ret |-> "None", owner |-> 0, m |-> m, d |-> d]
    ELSE LET m1 == [m EXCEPT !.locks = d.locks]
         IN  IF LockRows(m1.locks, t) # {}
             THEN IF FirstPid(m1.locks, t) # p
                  THEN [ret |-> "Locked", owner |-> FirstPid(m1.locks, t),
                        m |-> m1, d |-> d]
                  ELSE [ret |-> "False", owner |-> p, m |-> m1, d |-> d]
             ELSE LET m2 == [m1 EXCEPT !.locks = @ \cup {LockRec(t, p)}]
                  IN  [ret |-> "True", owner |-> p, m |-> m2,
                       d |-> save_locks(d, m2)]

\* unlock_table(t, force) by process p
unlock_table(p, t, force, m, d) ==
    IF ~IsMeta(t) /\ m.tabs[t] = Absent
    THEN [ret |-> "NotInDatabase", owner |-> 0, m |-> m, d |-> d]
    ELSE IF ~force /\ LockRows(m.locks, t) # {} /\ FirstPid(m.locks, t) # p
    THEN [ret |-> "Locked", owner |-> FirstPid(m.locks, t), m |-> m, d |-> d]
    ELSE LET m1 == [m EXCEPT !.locks = @ \ LockRows(@, t)]
         IN  [ret |-> "None", owner |-> 0, m |-> m1, d |-> save_locks(d, m1)]

\* is_locked(t) by process p
is_locked(p, t, m, d) ==
    IF IsMeta(t)
    THEN [ret |-> "False", owner |-> 0, m |-> m]
    ELSE LET m1 == [m EXCEPT !.locks = d.locks]
         IN  IF LockRows(m1.locks, t) # {} /\ FirstPid(m1.locks, t) # p
             THEN [ret |-> "Locked", owner |-> FirstPid(m1.locks, t),
                   m |-> m1]
             ELSE [ret |-> "False", owner |-> 0, m |-> m1]

-----------------------------------------------------------------------------
(* Indexes *)

IndexRow(t, col, name, type) ==
    [tn |-> t, col |-> col, name |-> name, type |-> type]

\* _construct_index without the "if key is None: continue"
construct_index_all(tb, col) ==
    {<<tb.rows[j][col], j>> : j \in 1..Len(tb.rows)}

\* _construct_index: enumerate(column_by_name(column_name)), a None key is
\* skipped, (key, idx) goes into the structure
construct_index(tb, col) ==
    {<<tb.rows[j][col], j>> : j \in {i \in 1..Len(tb.rows) :
                                       tb.rows[i][col] # NoneV}}

\* _save_index: indexes/meta_<index_name>_index.pkl is (over)written
save_index(art, name, entries) ==
    {a \in art : a.name # name} \cup {[name |-> name, entries |-> entries]}

\* os.remove of the artifacts of the named indexes
remove_index(art, names) == {a \in art : a.name \notin names}

\* _load_idx
load_idx(art, name) == (CHOOSE a \in art : a.name = name).entries

\* _has_index(table_name)
has_index(m, t) == \E r \in m.idx : r.tn = t

\* the checks of create_index without the one of the index name
create_index_anyname(m, name, t, col, type) ==
    IF m.tabs[t] = Absent THEN "NoTable"
    ELSE IF type \notin {"btree", "hash"} THEN "BadIndexType"
    ELSE IF col # PkIdx THEN "TypeError"
    ELSE IF \E r \in m.idx : r.tn = t /\ r.col = col THEN "ColumnIndexed"
    ELSE ""

\* the checks of create_index, in their order; "" when all pass
create_index_check(m, name, t, col, type) ==
    IF m.tabs[t] = Absent THEN "NoTable"
    ELSE IF type \notin {"btree", "hash"} THEN "BadIndexType"
    ELSE IF col # PkIdx THEN "TypeError"   \* "not in" on unique_columns=None
    ELSE IF \E r \in m.idx : r.name = name THEN "IndexNameExists"
    ELSE IF \E r \in m.idx : r.tn = t /\ r.col = col THEN "ColumnIndexed"
    ELSE ""

-----------------------------------------------------------------------------
(* Process state                                                           *)
(*   pc[p]   : where p stands inside a Database method ("idle": none)      *)
(*   cur[p]  : the method p is inside: name, table, lock_ownership,        *)
(*             the positions _delete_where returned, the pending error     *)
(*   res     : the call that finished last: caller, method, table, what it *)
(*             returned or raised, the owner the error names; for a join   *)
(*             the rows of the returned table and the right table and      *)
(*             condition columns it was called with                        *)
(*   held[p] : tables for which p's lock_table returned True and that no   *)
(*             unlock_table of p, nor a forced unlock, has released since  *)

NoCall == [op |-> "", t |-> "", own |-> "None", deleted |-> <<>>, err |-> ""]
NoArg  == [rt |-> "", l |-> 0, r |-> 0, as |-> "None"]
NoRes  == [p |-> 0, op |-> "", t |-> "", ret |-> "", owner |-> 0,
           own |-> "None", rows |-> {}, arg |-> NoArg]

\* the call returns ret (or raises it); own is the lock_ownership it had
Finish(p, op, t, ret, owner, own) ==
    /\ pc'  = [pc EXCEPT ![p] = "idle"]
    /\ cur' = [cur EXCEPT ![p] = NoCall]
    /\ res' = [p |-> p, op |-> op, t |-> t, ret |-> ret, owner |-> owner,
               own |-> own, rows |-> {}, arg |-> NoArg]

Hold(p, t, lk) ==
    held' = IF lk.ret = "True" THEN [held EXCEPT ![p] = @ \cup {t}] ELSE held

\* "self.load_database(); lock_ownership = self.lock_table(table_name)"
Locking(p, t) == lock_table(p, t, load_database(mem[p], disk), disk)

\* The common opening of cast, insert_into, update, delete_from and sort:
\* lk is the outcome of Locking(p, t), r the effect of the table operation
\* on the image lk.m: [err, caught, m, deleted].
Start(p, op, t, lk, r) ==
    /\ pc[p] = "idle"
    /\ Hold(p, t, lk)
    /\ disk' = lk.d
    /\ IF lk.ret = "Locked"
       THEN /\ mem' = [mem EXCEPT ![p] = lk.m]
            /\ Finish(p, op, t, "Locked", lk.owner, "None")
       ELSE /\ mem' = [mem EXCEPT ![p] = r.m]
            /\ IF r.err = "" \/ (r.caught /\ lk.ret = "True")
               THEN /\ pc' = [pc EXCEPT ![p] =
                                IF r.err # "" THEN "abort"
                                ELSE IF lk.ret = "True" THEN "mutated"
                                ELSE "unlocked"]
                    /\ cur' = [cur EXCEPT ![p] =
                                 [op |-> op, t |-> t, own |-> lk.ret,
                                  deleted |-> r.deleted, err |-> r.err]]
                    /\ res' = res
               ELSE Finish(p, op, t, r.err, 0, lk.ret)

Raised(e, c, m) == [err |-> e, caught |-> c, m |-> m, deleted |-> <<>>]
Done(m, del)    == [err |-> "", caught |-> FALSE, m |-> m, deleted |-> del]

\* cast(column_name, table_name, cast_type)
cast(p, t, col, ty) ==
    LET lk == Locking(p, t)
        m  == lk.m
        tr == IF m.tabs[t] = Absent THEN Raised("KeyError", FALSE, m)
              ELSE LET r == TCast(m.tabs[t], col, ty)
                   IN  IF r.err # "" THEN Raised(r.err, FALSE, m)
                       ELSE Done([m EXCEPT !.tabs[t] = r.tb], <<>>)
    IN  Start(p, "cast", t, lk, tr)

\* insert_into replacing the insert stack by insert_stack[1:]
insert_into_popfirst(p, t, row) ==
    LET lk == Locking(p, t)
        m  == lk.m
        tr == IF t \notin DOMAIN m.stk THEN Raised("IndexError", FALSE, m)
              ELSE IF m.tabs[t] = Absent THEN Raised("KeyError", TRUE, m)
              ELSE LET stack == m.stk[t]
                       r     == TInsert(m.tabs[t], row, stack)
                   IN  IF r.err # "" THEN Raised(r.err, TRUE, m)
                       ELSE Done([m EXCEPT
                                    !.tabs[t] = r.tb,
                                    !.stk[t] = SubSeq(stack, 2, Len(stack))],
                                 <<>>)
        m0 == load_database(mem[p], disk)
    IN  /\ IF m0.tabs[t] = Absent \/ t \notin DOMAIN m0.stk THEN TRUE
           ELSE IF m0.stk[t] # <<>> THEN TRUE
           ELSE Len(m0.tabs[t].rows) < MaxRows
        /\ Start(p, "insert_into", t, lk, tr)

\* insert_into(table_name, row_str), up to the table insert and the
\* replacement of the insert stack by insert_stack[:-1]
insert_into(p, t, row) ==
    LET lk == Locking(p, t)
        m  == lk.m
        tr == IF t \notin DOMAIN m.stk THEN Raised("IndexError", FALSE, m)
              ELSE IF m.tabs[t] = Absent THEN Raised("KeyError", TRUE, m)
              ELSE LET stack == m.stk[t]
                       r     == TInsert(m.tabs[t], row, stack)
                   IN  IF r.err # "" THEN Raised(r.err, TRUE, m)
                       ELSE Done([m EXCEPT
                                    !.tabs[t] = r.tb,
                                    !.stk[t] = SubSeq(stack, 1, Len(stack) - 1)],
                                 <<>>)
        m0 == load_database(mem[p], disk)
    IN  /\ IF m0.tabs[t] = Absent \/ t \notin DOMAIN m0.stk THEN TRUE
           ELSE IF m0.stk[t] # <<>> THEN TRUE
           ELSE Len(m0.tabs[t].rows) < MaxRows    \* bound on appended rows
        /\ Start(p, "insert_into", t, lk, tr)

\* update(table_name, set_args, condition)
update(p, t, col, val, cond) ==
    LET lk == Locking(p, t)
        m  == lk.m
        tr == IF m.tabs[t] = Absent THEN Raised("KeyError", FALSE, m)
              ELSE LET r == TUpdate(m.tabs[t], val, col, cond)
                   IN  IF r.err # ""
                       THEN Raised(r.err, FALSE, [m EXCEPT !.tabs[t] = r.tb])
                       ELSE Done([m EXCEPT !.tabs[t] = r.tb], <<>>)
    IN  Start(p, "update", t, lk, tr)

\* delete_from(table_name, condition) on a user table, up to _delete_where
delete_from(p, t, cond) ==
    LET lk == Locking(p, t)
        m  == lk.m
        tr == IF m.tabs[t] = Absent THEN Raised("KeyError", FALSE, m)
              ELSE LET r == TDelete(m.tabs[t], cond)
                   IN  Done([m EXCEPT !.tabs[t] = r.tb], r.deleted)
    IN  Start(p, "delete_from", t, lk, tr)

\* sort(table_name, column_name, asc)
sort(p, t, col, asc) ==
    LET lk == Locking(p, t)
        m  == lk.m
        tr == IF m.tabs[t] = Absent THEN Raised("KeyError", FALSE, m)
              ELSE Done([m EXCEPT !.tabs[t] = TSort(m.tabs[t], col, asc)],
                        <<>>)
    IN  Start(p, "sort", t, lk, tr)

\* "if lock_ownership: self.unlock_table(table_name)" after the table
\* operation
Unlock(p) ==
    LET u == unlock_table(p, cur[p].t, FALSE, mem[p], disk)
    IN  /\ pc[p] = "mutated"
        /\ mem'  = [mem EXCEPT ![p] = u.m]
        /\ disk' = u.d
        /\ IF u.ret = "None"
           THEN /\ held' = [held EXCEPT ![p] = @ \ {cur[p].t}]
                /\ pc'   = [pc EXCEPT ![p] = "unlocked"]
                /\ UNCHANGED <<cur, res>>
           ELSE /\ held' = held
                /\ Finish(p, cur[p].op, cur[p].t, u.ret, u.owner, cur[p].own)

\* the except branch re-raising without the unlock
AbortNoUnlock(p) ==
    /\ pc[p] = "abort"
    /\ Finish(p, cur[p].op, cur[p].t, cur[p].err, 0, cur[p].own)
    /\ UNCHANGED <<mem, disk, held>>

\* the except branch of insert_into: unlock, then re-raise
AbortUnlock(p) ==
    LET u == unlock_table(p, cur[p].t, FALSE, mem[p], disk)
    IN  /\ pc[p] = "abort"
        /\ mem'  = [mem EXCEPT ![p] = u.m]
        /\ disk' = u.d
        /\ IF u.ret = "None"
           THEN /\ held' = [held EXCEPT ![p] = @ \ {cur[p].t}]
                /\ Finish(p, cur[p].op, cur[p].t, cur[p].err, 0, cur[p].own)
           ELSE /\ held' = held
                /\ Finish(p, cur[p].op, cur[p].t, u.ret, u.owner, cur[p].own)

\* the close of a table function rebuilding the indexes of its table
SaveReindex(p) ==
    LET m  == update_meta(mem[p])
        d  == save_database(disk, m)
        on == {r \in m.idx : r.tn = cur[p].t}
    IN  /\ pc[p] = "unlocked"
        /\ mem'  = [mem EXCEPT ![p] = m]
        /\ disk' = [d EXCEPT !.art =
                      {a \in @ : \A r \in on : r.name # a.name}
                      \cup {[name    |-> r.name,
                              entries |-> construct_index(m.tabs[r.tn], r.col)]
                              : r \in on}]
        /\ IF cur[p].op = "delete_from"
           THEN pc' = [pc EXCEPT ![p] = "saved"] /\ UNCHANGED <<cur, res>>
           ELSE Finish(p, cur[p].op, cur[p].t, "ok", 0, cur[p].own)
        /\ UNCHANGED held

\* "self._update(); self.save_database()" closing every table function
Save(p) ==
    LET m == update_meta(mem[p])
    IN  /\ pc[p] = "unlocked"
        /\ mem'  = [mem EXCEPT ![p] = m]
        /\ disk' = save_database(disk, m)
        /\ IF cur[p].op = "delete_from"
           THEN pc' = [pc EXCEPT ![p] = "saved"] /\ UNCHANGED <<cur, res>>
           ELSE Finish(p, cur[p].op, cur[p].t, "ok", 0, cur[p].own)
        /\ UNCHANGED held

\* _add_to_insert_stack(table_name, indexes): old_lst + indexes
add_to_insert_stack(m, t, indexes) ==
    [m EXCEPT !.stk[t] = @ \o indexes]

\* the tail of delete_from: _add_to_insert_stack and the second
\* save_database
SaveStack(p) ==
    LET t == cur[p].t
    IN  /\ pc[p] = "saved"
        /\ IF t \in DOMAIN mem[p].stk
           THEN LET m == add_to_insert_stack(mem[p], t, cur[p].deleted)
                IN  /\ mem'  = [mem EXCEPT ![p] = m]
                    /\ disk' = save_database(disk, m)
                    /\ Finish(p, "delete_from", t, "ok", 0, cur[p].own)
           ELSE /\ UNCHANGED <<mem, disk>>
                /\ Finish(p, "delete_from", t, "IndexError", 0, cur[p].own)
        /\ UNCHANGED held

\* create_table(name, ...): the new Table replaces the entry of that name
\* in Database.tables, then _update and save_database; no load_database and
\* no lock_table
create_table(p, t) ==
    LET m == update_meta([mem[p] EXCEPT !.tabs[t] = NewTable])
    IN  /\ pc[p] = "idle"
        /\ mem'  = [mem EXCEPT ![p] = m]
        /\ disk' = save_database(disk, m)
        /\ Finish(p, "create_table", t, "ok", 0, "None")
        /\ UNCHANGED held

-----------------------------------------------------------------------------
(* drop_table(table_name) *)

Without(f, t) == [n \in DOMAIN f \ {t} |-> f[n]]

\* load_database, lock_table, self.tables.pop, os.remove
drop_table(p, t) ==
    LET lk == Locking(p, t)
    IN  /\ pc[p] = "idle"
        /\ Hold(p, t, lk)
        /\ IF lk.ret = "Locked"
           THEN /\ mem'  = [mem EXCEPT ![p] = lk.m]
                /\ disk' = lk.d
                /\ Finish(p, "drop_table", t, "Locked", lk.owner, "None")
           ELSE IF lk.m.tabs[t] = Absent
           THEN /\ mem'  = [mem EXCEPT ![p] = lk.m]
                /\ disk' = lk.d
                /\ Finish(p, "drop_table", t, "KeyError", 0, lk.ret)
           ELSE /\ mem'  = [mem EXCEPT ![p] = [lk.m EXCEPT !.tabs[t] = Absent]]
                /\ disk' = [lk.d EXCEPT !.tabs[t] = Absent]
                /\ pc'   = [pc EXCEPT ![p] = "drop_locks"]
                /\ cur'  = [cur EXCEPT ![p] =
                              [NoCall EXCEPT !.op = "drop_table", !.t = t,
                                             !.own = lk.ret]]
                /\ res'  = res

\* delete_from(meta, 'table_name=t') on a meta table: load_database, the
\* row removal (giving the image md), _update, save_database; lock_table
\* returns None for a meta table
DropMeta(p, from, to, md) ==
    LET m == update_meta(md)
    IN  /\ pc[p] = from
        /\ mem'  = [mem EXCEPT ![p] = m]
        /\ disk' = save_database(disk, m)
        /\ pc'   = [pc EXCEPT ![p] = to]
        /\ UNCHANGED <<cur, res>>

DropLocks(p) ==
    LET md == [load_database(mem[p], disk)
                 EXCEPT !.locks = @ \ LockRows(@, cur[p].t)]
    IN  /\ DropMeta(p, "drop_locks", "drop_length", md)
        /\ held' = [held EXCEPT ![p] = @ \ {cur[p].t}]

DropLength(p) ==
    LET md == [load_database(mem[p], disk)
                 EXCEPT !.len = Without(@, cur[p].t)]
    IN  /\ DropMeta(p, "drop_length", "drop_stack", md)
        /\ UNCHANGED held

DropStack(p) ==
    LET md == [load_database(mem[p], disk)
                 EXCEPT !.stk = Without(@, cur[p].t)]
    IN  /\ DropMeta(p, "drop_stack", "drop_indexes", md)
        /\ UNCHANGED held

\* the cascade over meta_indexes (drop_index of every index registered on
\* the table) and the closing save_database
DropIndexes(p) ==
    LET t     == cur[p].t
        mine  == {r \in mem[p].idx : r.tn = t}
        m0    == IF mine = {} THEN mem[p]
                 ELSE update_meta([load_database(mem[p], disk)
                                     EXCEPT !.idx = @ \ mine])
        m     == [m0 EXCEPT !.attrs = @ \ {t}]      \* delattr(self, t)
        d     == save_database(disk, m)
    IN  /\ pc[p] = "drop_indexes"
        /\ mem'  = [mem EXCEPT ![p] = m]
        /\ disk' = [d EXCEPT !.art = remove_index(@, {r.name : r \in mine})]
        /\ Finish(p, "drop_table", t, "ok", 0, cur[p].own)
        /\ UNCHANGED held

-----------------------------------------------------------------------------
(* create_index, drop_index *)

\* create_index inserting its row into meta_indexes ahead of the checks
create_index_eager(p, name, t, col, type) ==
    LET e  == create_index_check(mem[p], name, t, col, type)
        m  == [mem[p] EXCEPT !.idx = @ \cup {IndexRow(t, col, name, type)}]
        d  == [disk EXCEPT !.art =
                 save_index(@, name, construct_index(m.tabs[t], col))]
    IN  /\ pc[p] = "idle"
        /\ mem' = [mem EXCEPT ![p] = m]
        /\ IF e # ""
           THEN /\ UNCHANGED disk
                /\ Finish(p, "create_index", t, e, 0, "None")
           ELSE /\ disk' = save_database(d, m)
                /\ Finish(p, "create_index", t, "ok", 0, "None")
        /\ UNCHANGED held

\* create_index(index_name, {table_name, column_name}, index_type): works
\* on Database.tables as it is (no load_database); the row goes into
\* meta_indexes, the structure is built and saved, then save_database
create_index(p, name, t, col, type) ==
    LET e  == create_index_check(mem[p], name, t, col, type)
        m  == [mem[p] EXCEPT !.idx = @ \cup {IndexRow(t, col, name, type)}]
        d  == [disk EXCEPT !.art =
                 save_index(@, name, construct_index(m.tabs[t], col))]
    IN  /\ pc[p] = "idle"
        /\ IF e # ""
           THEN /\ UNCHANGED <<mem, disk>>
                /\ Finish(p, "create_index", t, e, 0, "None")
           ELSE /\ mem'  = [mem EXCEPT ![p] = m]
                /\ disk' = save_database(d, m)
                /\ Finish(p, "create_index", t, "ok", 0, "None")
        /\ UNCHANGED held

\* drop_index(index_name): when Database.tables has the name in
\* meta_indexes, delete_from('meta_indexes', ...) (load_database, row
\* removal, _update, save_database), os.remove of the artifact,
\* save_database; otherwise nothing
drop_index(p, name) ==
    LET m == update_meta([load_database(mem[p], disk)
                            EXCEPT !.idx = {r \in @ : r.name # name}])
    IN  /\ pc[p] = "idle"
        /\ IF \E r \in mem[p].idx : r.name = name
           THEN /\ mem'  = [mem EXCEPT ![p] = m]
                /\ disk' = [save_database(disk, m)
                              EXCEPT !.art = remove_index(@, {name})]
           ELSE UNCHANGED <<mem, disk>>
        /\ Finish(p, "drop_index", name, "ok", 0, "None")
        /\ UNCHANGED held

-----------------------------------------------------------------------------
(* join(mode, left_table, right_table, condition) for the modes 'inner'    *)
(* and 'inl'.  A condition is [l, r]: the columns of "l=r"; the code takes *)
(* condition.split('=')[0], the left one, as the indexed column of either  *)
(* table.                                                                  *)

LiveRows(tb) == {tb.rows[j] : j \in {i \in 1..Len(tb.rows) :
                                        ~IsTomb(tb.rows[i])}}

\* Table._inner_join: the pairs of rows with equal join values
TInnerJoin(L, R, c) ==
    {x[1] \o x[2] : x \in {y \in LiveRows(L) \X LiveRows(R) :
                              y[1][c.l] # NoneV /\ y[1][c.l] = y[2][c.r]}}

\* Inlj(condition, left, right, index, side).join(): every row of the side
\* without the index probes the index with its join value and is joined
\* with the rows at the positions found
InlJoin(L, R, c, entries, side) ==
    IF side = "right"
    THEN {x[1] \o R.rows[x[2][2]] :
            x \in {y \in LiveRows(L) \X entries :
                      y[2][1] = y[1][c.l] /\ y[2][2] <= Len(R.rows)}}
    ELSE {L.rows[x[2][2]] \o x[1] :
            x \in {y \in LiveRows(R) \X entries :
                      y[2][1] = y[1][c.r] /\ y[2][2] <= Len(L.rows)}}

\* the name of the index meta_indexes registers on (t, col)
IndexNameOf(m, t, col) ==
    (CHOOSE r \in m.idx : r.tn = t /\ r.col = col).name

\* the branch mode=='inl' handing every index to Inlj as the left table's
join_inl_left(m, d, lt, rt, c) ==
    LET column_exist_r == \E r \in m.idx : r.tn = rt /\ r.col = c.l
        column_exist_l == \E r \in m.idx : r.tn = lt /\ r.col = c.l
        name == IndexNameOf(m, IF column_exist_r THEN rt ELSE lt, c.l)
    IN  IF ~has_index(m, lt) /\ ~has_index(m, rt)
        THEN [ret |-> "IndexUnavailable", rows |-> {}]
        ELSE IF ~column_exist_r /\ ~column_exist_l
        THEN [ret |-> "UnboundLocalError", rows |-> {}]
        ELSE IF \A a \in d.art : a.name # name
        THEN [ret |-> "FileNotFoundError", rows |-> {}]
        ELSE [ret  |-> "ok",
              rows |-> InlJoin(m.tabs[lt], m.tabs[rt], c,
                               load_idx(d.art, name), "left")]

\* the branch mode=='inl' on the loaded image m: what is returned or raised
join_inl(m, d, lt, rt, c) ==
    LET column_exist_r == \E r \in m.idx : r.tn = rt /\ r.col = c.l
        column_exist_l == \E r \in m.idx : r.tn = lt /\ r.col = c.l
        name == IndexNameOf(m, IF column_exist_r THEN rt ELSE lt, c.l)
    IN  IF ~has_index(m, lt) /\ ~has_index(m, rt)
        THEN [ret |-> "IndexUnavailable", rows |-> {}]
        ELSE IF ~column_exist_r /\ ~column_exist_l
        THEN [ret |-> "UnboundLocalError", rows |-> {}]  \* res never assigned
        ELSE IF \A a \in d.art : a.name # name
        THEN [ret |-> "FileNotFoundError", rows |-> {}]
        ELSE [ret  |-> "ok",
              rows |-> InlJoin(m.tabs[lt], m.tabs[rt], c,
                               load_idx(d.art, name),
                               IF column_exist_r THEN "right" ELSE "left")]

\* the modes the dispatch of join knows; Table._left_join, _right_join,
\* _full_join and Smj are not modelled, so no action takes their modes
KnownModes == {"inner", "left", "right", "full", "inl", "sm"}

\* join with the final else taken for the inner join
join_result_inner(p, mode, lt, rt, c) ==
    LET m0  == load_database(mem[p], disk)
        il  == is_locked(p, lt, m0, disk)
        ir  == is_locked(p, rt, il.m, disk)
    IN  IF il.ret = "Locked"
        THEN [ret |-> "Locked", owner |-> il.owner, m |-> il.m, rows |-> {}]
        ELSE IF ir.ret = "Locked"
        THEN [ret |-> "Locked", owner |-> ir.owner, m |-> ir.m, rows |-> {}]
        ELSE IF ir.m.tabs[lt] = Absent \/ ir.m.tabs[rt] = Absent
        THEN [ret |-> "KeyError", owner |-> 0, m |-> ir.m, rows |-> {}]
        ELSE IF mode = "inl"
        THEN LET j == join_inl(ir.m, disk, lt, rt, c)
             IN  [ret |-> j.ret, owner |-> 0, m |-> ir.m, rows |-> j.rows]
        ELSE [ret |-> "ok", owner |-> 0, m |-> ir.m,
              rows |-> TInnerJoin(ir.m.tabs[lt], ir.m.tabs[rt], c)]

\* join up to "res": load_database, is_locked on both tables, the lookup of
\* both tables, the dispatch on mode
join_result(p, mode, lt, rt, c) ==
    LET m0  == load_database(mem[p], disk)
        il  == is_locked(p, lt, m0, disk)
        ir  == is_locked(p, rt, il.m, disk)
    IN  IF il.ret = "Locked"
        THEN [ret |-> "Locked", owner |-> il.owner, m |-> il.m, rows |-> {}]
        ELSE IF ir.ret = "Locked"
        THEN [ret |-> "Locked", owner |-> ir.owner, m |-> ir.m, rows |-> {}]
        ELSE IF ir.m.tabs[lt] = Absent \/ ir.m.tabs[rt] = Absent
        THEN [ret |-> "KeyError", owner |-> 0, m |-> ir.m, rows |-> {}]
        ELSE IF mode = "inner"
        THEN [ret |-> "ok", owner |-> 0, m |-> ir.m,
              rows |-> TInnerJoin(ir.m.tabs[lt], ir.m.tabs[rt], c)]
        ELSE IF mode = "inl"
        THEN LET j == join_inl(ir.m, disk, lt, rt, c)
             IN  [ret |-> j.ret, owner |-> 0, m |-> ir.m, rows |-> j.rows]
        ELSE [ret |-> "NotImplementedError", owner |-> 0, m |-> ir.m,
              rows |-> {}]

\* join with save_as None: the result is returned
join(p, mode, lt, rt, c) ==
    LET out == join_result(p, mode, lt, rt, c)
    IN  /\ pc[p] = "idle"
        /\ mode \notin KnownModes \ {"inner", "inl"}
        /\ mem' = [mem EXCEPT ![p] = out.m]
        /\ res' = [p |-> p, op |-> "join_" \o mode, t |-> lt,
                   ret |-> out.ret, owner |-> out.owner, own |-> "None",
                   rows |-> out.rows,
                   arg |-> [rt |-> rt, l |-> c.l, r |-> c.r, as |-> "None"]]
        /\ UNCHANGED <<disk, pc, cur, held>>

\* the rows of a result in a sequence (their order is not modelled)
RECURSIVE RowsOf(_)
RowsOf(S) ==
    IF S = {} THEN <<>>
    ELSE LET x == CHOOSE y \in S : TRUE IN <<x>> \o RowsOf(S \ {x})

\* join with save_as given: "res._name = save_as; table_from_object(res)",
\* which puts the result into Database.tables, raises when the name is an
\* attribute of the object already, and otherwise _update, save_database
join_as(p, mode, lt, rt, c, save_as) ==
    LET out == join_result(p, mode, lt, rt, c)
        tb  == [rows |-> RowsOf(out.rows), types |-> ColumnTypes \o ColumnTypes]
        m1  == [out.m EXCEPT !.tabs[save_as] = tb]
        m2  == update_meta([m1 EXCEPT !.attrs = @ \cup {save_as}])
        ret == IF out.ret # "ok" THEN out.ret
               ELSE IF save_as \in out.m.attrs THEN "AttributeExists"
               ELSE "ok"
    IN  /\ pc[p] = "idle"
        /\ mode \notin KnownModes \ {"inner", "inl"}
        /\ mem'  = [mem EXCEPT ![p] = IF out.ret # "ok" THEN out.m
                                      ELSE IF ret = "ok" THEN m2 ELSE m1]
        /\ disk' = IF ret = "ok" THEN save_database(disk, m2) ELSE disk
        /\ res'  = [p |-> p, op |-> "join_" \o mode, t |-> lt,
                    ret |-> ret, owner |-> out.owner, own |-> "None",
                    rows |-> IF ret = "ok" THEN out.rows ELSE {},
                    arg |-> [rt |-> rt, l |-> c.l, r |-> c.r, as |-> save_as]]
        /\ UNCHANGED <<pc, cur, held>>

-----------------------------------------------------------------------------
(* select.  A condition is [col, op, k] or NoCond; Table._select_where     *)
(* scans the live rows, or, handed the indexes of the table and an         *)
(* equality on an indexed column, looks the value up in that index.        *)

NoCond == [col |-> 0, op |-> "", k |-> 0]

\* Table._select_where without indexes
TSelect(tb, cond) ==
    {r \in LiveRows(tb) : cond = NoCond \/ Matches(r, cond)}

\* Table._select_where looking the value up in the index entries
TSelectIndexed(tb, cond, entries) ==
    {tb.rows[e[2]] : e \in {x \in entries : /\ x[1] = IntV(cond.k)
                                            /\ x[2] <= Len(tb.rows)}}

\* select with the commented-out "self.lock_table(table_name, mode='x')"
\* in the place of is_locked
select_locking(p, t, cond) ==
    LET lk == lock_table(p, t, load_database(mem[p], disk), disk)
    IN  /\ pc[p] = "idle"
        /\ mem'  = [mem EXCEPT ![p] = lk.m]
        /\ disk' = lk.d
        /\ res'  = [p |-> p, op |-> "select", t |-> t,
                    ret |-> IF lk.ret = "Locked" THEN "Locked" ELSE "ok",
                    owner |-> lk.owner, own |-> "None",
                    rows |-> IF lk.ret = "Locked" \/ lk.m.tabs[t] = Absent
                             THEN {} ELSE TSelect(lk.m.tabs[t], cond),
                    arg |-> NoArg]
        /\ UNCHANGED <<pc, cur, held>>

\* select with save_as None: load_database, is_locked, the indexes of the
\* table loaded when it has any and a condition is given, _select_where
select(p, t, cond) ==
    LET m0    == load_database(mem[p], disk)
        il    == is_locked(p, t, m0, disk)
        m     == il.m
        mine  == {r \in m.idx : r.tn = t}
        hint  == has_index(m, t) /\ cond # NoCond
        onCol == {r \in mine : r.col = cond.col}
        out   == IF il.ret = "Locked"
                 THEN [ret |-> "Locked", rows |-> {}]
                 ELSE IF hint /\ \E r \in mine :
                                   \A a \in disk.art : a.name # r.name
                 THEN [ret |-> "FileNotFoundError", rows |-> {}]
                 ELSE IF m.tabs[t] = Absent
                 THEN [ret |-> "KeyError", rows |-> {}]
                 ELSE IF hint /\ cond.op = "=" /\ onCol # {}
                 THEN [ret  |-> "ok",
                       rows |-> TSelectIndexed(m.tabs[t], cond,
                                   load_idx(disk.art,
                                            IndexNameOf(m, t, cond.col)))]
                 ELSE [ret |-> "ok", rows |-> TSelect(m.tabs[t], cond)]
    IN  /\ pc[p] = "idle"
        /\ mem' = [mem EXCEPT ![p] = m]
        /\ res' = [p |-> p, op |-> "select", t |-> t, ret |-> out.ret,
                   owner |-> il.owner, own |-> "None", rows |-> out.rows,
                   arg |-> NoArg]
        /\ UNCHANGED <<disk, pc, cur, held>>

-----------------------------------------------------------------------------
(* The lock interface called directly *)

LockTable(p, t) ==
    LET lk == lock_table(p, t, mem[p], disk)
    IN  /\ pc[p] = "idle"
        /\ Hold(p, t, lk)
        /\ mem'  = [mem EXCEPT ![p] = lk.m]
        /\ disk' = lk.d
        /\ Finish(p, "lock_table", t, lk.ret, lk.owner, "None")

UnlockTable(p, t, force) ==
    LET u  == unlock_table(p, t, force, mem[p], disk)
        op == IF force THEN "unlock_table_force" ELSE "unlock_table"
    IN  /\ pc[p] = "idle"
        /\ mem'  = [mem EXCEPT ![p] = u.m]
        /\ disk' = u.d
        /\ held' = IF u.ret # "None" THEN held
                   ELSE IF force THEN [q \in Procs |-> held[q] \ {t}]
                   ELSE [held EXCEPT ![p] = @ \ {t}]
        /\ Finish(p, op, t, u.ret, u.owner, "None")

IsLocked(p, t) ==
    LET r == is_locked(p, t, mem[p], disk)
    IN  /\ pc[p] = "idle"
        /\ mem'  = [mem EXCEPT ![p] = r.m]
        /\ Finish(p, "is_locked", t, r.ret, r.owner, "None")
        /\ UNCHANGED <<disk, held>>

\* delete_from(mt, 'table_name=t') called on the meta table mt:
\* load_database, lock_table(mt), the row removal, _update and
\* save_database; no insert stack is kept for a meta table
delete_from_meta(p, mt, t) ==
    LET lk == Locking(p, mt)
        md == IF mt = "meta_locks"
              THEN [lk.m EXCEPT !.locks = @ \ LockRows(@, t)]
              ELSE IF mt = "meta_length"
              THEN [lk.m EXCEPT !.len = Without(@, t)]
              ELSE IF mt = "meta_insert_stack"
              THEN [lk.m EXCEPT !.stk = Without(@, t)]
              ELSE [lk.m EXCEPT !.idx = {r \in @ : r.tn # t}]
        m  == update_meta(md)
    IN  /\ pc[p] = "idle"
        /\ Hold(p, mt, lk)
        /\ IF lk.ret = "Locked"
           THEN /\ mem'  = [mem EXCEPT ![p] = lk.m]
                /\ disk' = lk.d
                /\ Finish(p, "delete_from", mt, "Locked", lk.owner, "None")
           ELSE /\ mem'  = [mem EXCEPT ![p] = m]
                /\ disk' = save_database(lk.d, m)
                /\ Finish(p, "delete_from", mt, "ok", 0, lk.ret)

-----------------------------------------------------------------------------
(* lock_table in its two file operations: the read of meta_locks.pkl with  *)
(* the test of the record, and the insert with _save_locks                 *)

\* the read and the test, going on to the insert whatever record is found
LockReadAny(p, t) ==
    LET m1 == [mem[p] EXCEPT !.locks = disk.locks]
    IN  /\ pc[p] = "idle"
        /\ UNCHANGED <<disk, held>>
        /\ IF IsMeta(t) \/ mem[p].tabs[t] = Absent
           THEN /\ mem' = mem
                /\ Finish(p, "lock_table", t, "None", 0, "None")
           ELSE /\ mem' = [mem EXCEPT ![p] = m1]
                /\ pc'  = [pc EXCEPT ![p] = "lock_write"]
                /\ cur' = [cur EXCEPT ![p] =
                             [NoCall EXCEPT !.op = "lock_table", !.t = t]]
                /\ res' = res

\* pickle.load of meta_locks.pkl and the test of the record of t
LockRead(p, t) ==
    LET m1 == [mem[p] EXCEPT !.locks = disk.locks]
    IN  /\ pc[p] = "idle"
        /\ UNCHANGED <<disk, held>>
        /\ IF IsMeta(t) \/ mem[p].tabs[t] = Absent
           THEN /\ mem' = mem
                /\ Finish(p, "lock_table", t, "None", 0, "None")
           ELSE /\ mem' = [mem EXCEPT ![p] = m1]
                /\ IF LockRows(m1.locks, t) # {}
                   THEN IF FirstPid(m1.locks, t) # p
                        THEN Finish(p, "lock_table", t, "Locked",
                                    FirstPid(m1.locks, t), "None")
                        ELSE Finish(p, "lock_table", t, "False", p, "None")
                   ELSE /\ pc'  = [pc EXCEPT ![p] = "lock_write"]
                        /\ cur' = [cur EXCEPT ![p] =
                                     [NoCall EXCEPT !.op = "lock_table",
                                                    !.t = t]]
                        /\ res' = res

\* meta_locks._insert([table_name, os.getpid(), mode]), _save_locks,
\* return True
LockWrite(p) ==
    LET t  == cur[p].t
        m2 == [mem[p] EXCEPT !.locks = @ \cup {LockRec(t, p)}]
    IN  /\ pc[p] = "lock_write"
        /\ mem'  = [mem EXCEPT ![p] = m2]
        /\ disk' = save_locks(disk, m2)
        /\ held' = [held EXCEPT ![p] = @ \cup {t}]
        /\ Finish(p, "lock_table", t, "True", p, "None")

-----------------------------------------------------------------------------
(* Initial states: the user tables created and filled, every process has   *)
(* just constructed its Database (load_database).                          *)

Row(k, n) == <<IntV(k), StrV(n)>>

Keys  == 1..MaxKey
Names == {"a", "7"}

Image(tabs) ==
    update_meta([tabs |-> tabs, locks |-> {}, len |-> <<>>, stk |-> <<>>,
                 idx |-> {}, attrs |-> {}])

OnDisk(m) == [tabs |-> m.tabs, locks |-> m.locks, len |-> m.len,
              stk |-> m.stk, idx |-> m.idx, art |-> {}]

InitWith(r1, r2) ==
    LET m == Image([n \in UserTables |->
                      [NewTable EXCEPT !.rows = IF n = "t1" THEN r1 ELSE r2]])
    IN  /\ disk = OnDisk(m)
        /\ mem  = [p \in Procs |-> m]
        /\ pc   = [p \in Procs |-> "idle"]
        /\ cur  = [p \in Procs |-> NoCall]
        /\ res  = NoRes
        /\ held = [p \in Procs |-> {}]

-----------------------------------------------------------------------------
(* Spec: the lock interface, called by every process on every user table *)

Init == InitWith(<<Row(1, "a")>>, <<Row(1, "a")>>)

Next ==
    \E p \in Procs, t \in UserTables :
       \/ LockTable(p, t)
       \/ \E f \in BOOLEAN : UnlockTable(p, t, f)
       \/ IsLocked(p, t)

Spec == Init /\ [][Next]_vars

-----------------------------------------------------------------------------
(* SpecOps: process 1 runs the table functions and drop_table on t1 and    *)
(* uses the lock interface; process 2 takes and releases locks around it.  *)

OpsRows == {<<Row(1, "a")>>, <<Row(1, "7"), Row(2, "7")>>}

InitOps == \E r1 \in OpsRows : InitWith(r1, <<Row(1, "a")>>)

OpsInputs == {<<"2", "7">>, <<"1", "a">>, <<"x", "a">>}
OpsCond   == [col |-> PkIdx, op |-> ">=", k |-> 1]

NextOps ==
    \/ LockTable(1, "t1")
    \/ UnlockTable(1, "t1", FALSE)
    \/ \E t \in UserTables : LockTable(2, t)
    \/ \E t \in UserTables : UnlockTable(2, t, FALSE)
    \/ cast(1, "t1", 2, "int")
    \/ \E row \in OpsInputs : insert_into(1, "t1", row)
    \/ update(1, "t1", PkIdx, "2", OpsCond)
    \/ delete_from(1, "t1", [OpsCond EXCEPT !.op = "="])
    \/ sort(1, "t1", PkIdx, TRUE)
    \/ drop_table(1, "t1")
    \/ Unlock(1)
    \/ AbortUnlock(1)
    \/ Save(1)
    \/ SaveStack(1)
    \/ DropLocks(1)
    \/ DropLength(1)
    \/ DropStack(1)
    \/ DropIndexes(1)

SpecOps == InitOps /\ [][NextOps]_vars

-----------------------------------------------------------------------------
(* SpecStore: one process inserting into and deleting from one table *)

InitStore == InitWith(<<>>, <<>>)

RowInputs == {<<ShowInt(k), n>> : k \in Keys, n \in Names}
                \cup {<<"x", "a">>, <<"1">>}
Conds     == {[col |-> PkIdx, op |-> o, k |-> k] :
                 o \in {"=", ">="}, k \in Keys}

NextStore ==
    \/ \E row \in RowInputs : insert_into(1, "t1", row)
    \/ \E c \in Conds : delete_from(1, "t1", c)
    \/ Unlock(1)
    \/ AbortUnlock(1)
    \/ Save(1)
    \/ SaveStack(1)

SpecStore == InitStore /\ [][NextStore]_vars

-----------------------------------------------------------------------------
(* SpecFree: one process creating, filling and emptying one table *)


NextFree ==
    \/ create_table(1, "t1")
    \/ \E row \in RowInputs : insert_into(1, "t1", row)
    \/ \E c \in Conds : delete_from(1, "t1", c)
    \/ Unlock(1)
    \/ AbortUnlock(1)
    \/ Save(1)
    \/ SaveStack(1)

SpecFree == InitStore /\ [][NextFree]_vars

-----------------------------------------------------------------------------
(* SpecMeta: the lock interface called on user tables and on the internal  *)
(* tables, and rows deleted from the internal tables                       *)

NextMeta ==
    \/ \E p \in Procs, t \in UserTables : LockTable(p, t)
    \/ \E p \in Procs : UnlockTable(p, "t1", FALSE)
    \/ \E n \in MetaTables : LockTable(1, n)
    \/ \E n \in MetaTables, f \in BOOLEAN : UnlockTable(1, n, f)
    \/ \E n \in MetaTables : IsLocked(1, n)
    \/ \E n \in MetaTables : delete_from_meta(1, n, "t1")

SpecMeta == Init /\ [][NextMeta]_vars

-----------------------------------------------------------------------------
(* SpecDrop: process 1 creates and drops indexes and drops tables while    *)
(* process 2 takes and releases the lock of t2                             *)

InitIndex == InitWith(<<Row(1, "a"), Row(2, "a")>>, <<Row(1, "a")>>)

IndexNames == {"i1", "i2"}
IndexTypes == {"btree", "hash", "rtree"}

NextDrop ==
    \/ LockTable(2, "t2")
    \/ UnlockTable(2, "t2", FALSE)
    \/ \E n \in IndexNames, t \in UserTables, c \in 1..NumCols,
          ty \in IndexTypes : create_index(1, n, t, c, ty)
    \/ \E n \in IndexNames : drop_index(1, n)
    \/ \E t \in UserTables : drop_table(1, t)
    \/ DropLocks(1)
    \/ DropLength(1)
    \/ DropStack(1)
    \/ DropIndexes(1)

SpecDrop == InitIndex /\ [][NextDrop]_vars

-----------------------------------------------------------------------------
(* SpecJoin: process 1 indexes the tables, changes t2 and joins t1 with    *)
(* t2; process 2 takes and releases the lock of t2                         *)

JoinConds == {[l |-> 1, r |-> 1], [l |-> 2, r |-> 2]}

NextJoin ==
    \/ LockTable(2, "t2")
    \/ UnlockTable(2, "t2", FALSE)
    \/ \E n \in IndexNames, t \in UserTables, c \in 1..NumCols :
          create_index(1, n, t, c, "btree")
    \/ \E n \in IndexNames : drop_index(1, n)
    \/ insert_into(1, "t2", <<"2", "a">>)
    \/ delete_from(1, "t2", [col |-> PkIdx, op |-> "=", k |-> 1])
    \/ Unlock(1)
    \/ AbortUnlock(1)
    \/ Save(1)
    \/ SaveStack(1)
    \/ \E mode \in {"inner", "inl"}, c \in JoinConds :
          join(1, mode, "t1", "t2", c)

SpecJoin == InitIndex /\ [][NextJoin]_vars

-----------------------------------------------------------------------------
(* SpecTwo: process 1 inserts into t1 while process 2 inserts into t2 *)

TwoInputs == {<<"1", "a">>, <<"2", "a">>}

NextTwo ==
    \/ \E row \in TwoInputs : insert_into(1, "t1", row)
    \/ \E row \in TwoInputs : insert_into(2, "t2", row)
    \/ \E p \in Procs : Unlock(p)
    \/ \E p \in Procs : AbortUnlock(p)
    \/ \E p \in Procs : Save(p)

SpecTwo == InitStore /\ [][NextTwo]_vars

-----------------------------------------------------------------------------
(* SpecFrozen: process 1 indexes t1 and runs the table functions on it;    *)
(* process 2 takes and releases the lock of t1                             *)

FrozenCond == [col |-> PkIdx, op |-> ">=", k |-> 1]

NextFrozen ==
    \/ LockTable(2, "t1")
    \/ UnlockTable(2, "t1", FALSE)
    \/ \E ty \in {"btree", "hash"} : create_index(1, "i1", "t1", PkIdx, ty)
    \/ insert_into(1, "t1", <<"3", "a">>)
    \/ delete_from(1, "t1", [FrozenCond EXCEPT !.op = "="])
    \/ update(1, "t1", PkIdx, "3", FrozenCond)
    \/ cast(1, "t1", 2, "int")
    \/ sort(1, "t1", PkIdx, TRUE)
    \/ Unlock(1)
    \/ AbortUnlock(1)
    \/ Save(1)
    \/ SaveStack(1)

SpecFrozen == InitIndex /\ [][NextFrozen]_vars

-----------------------------------------------------------------------------
(* SpecCreate: process 1 creates tables, process 2 (and process 1 on t1)   *)
(* uses the lock interface                                                 *)

NextCreate ==
    \/ \E t \in UserTables : LockTable(2, t)
    \/ \E t \in UserTables : UnlockTable(2, t, FALSE)
    \/ LockTable(1, "t1")
    \/ UnlockTable(1, "t1", FALSE)
    \/ \E t \in UserTables : create_table(1, t)

SpecCreate == InitOps /\ [][NextCreate]_vars

-----------------------------------------------------------------------------
(* SpecCount: one process inserting rows, among them the row (0, ''), into *)
(* t1 and deleting from it                                                 *)

CountInputs == {<<"0", "">>, <<"1", "a">>, <<"2", "">>}

NextCount ==
    \/ \E row \in CountInputs : insert_into(1, "t1", row)
    \/ \E k \in 0..1 : delete_from(1, "t1", [col |-> PkIdx, op |-> "=", k |-> k])
    \/ Unlock(1)
    \/ AbortUnlock(1)
    \/ Save(1)
    \/ SaveStack(1)

SpecCount == InitStore /\ [][NextCount]_vars

-----------------------------------------------------------------------------
(* SpecRace: the lock interface with lock_table interleaved between its    *)
(* read and its write                                                      *)

NextRace ==
    \E p \in Procs :
       \/ \E t \in UserTables : LockRead(p, t)
       \/ LockWrite(p)
       \/ \E t \in UserTables, f \in BOOLEAN : UnlockTable(p, t, f)

SpecRace == Init /\ [][NextRace]_vars

-----------------------------------------------------------------------------
(* SpecRead: process 1 indexes the tables, deletes from t2, selects and    *)
(* joins; process 2 takes and releases the lock of t2                      *)

ReadConds == {NoCond, [col |-> PkIdx, op |-> "=", k |-> 1]}

NextRead ==
    \/ LockTable(2, "t2")
    \/ UnlockTable(2, "t2", FALSE)
    \/ \E t \in UserTables : create_index(1, "i1", t, PkIdx, "btree")
    \/ delete_from(1, "t2", [col |-> PkIdx, op |-> "=", k |-> 1])
    \/ Unlock(1)
    \/ Save(1)
    \/ SaveStack(1)
    \/ \E t \in UserTables, cond \in ReadConds : select(1, t, cond)
    \/ \E mode \in {"inner", "inl"}, c \in JoinConds :
          join(1, mode, "t1", "t2", c)

SpecRead == InitIndex /\ [][NextRead]_vars

-----------------------------------------------------------------------------
(* SpecMode: process 1 indexes t2 and joins t1 with t2 in a known and in   *)
(* an unknown mode, with and without save_as; process 2 takes and releases *)
(* the lock of t2                                                          *)

JoinModes == {"inner", "inl", "cross"}

NextMode ==
    \/ LockTable(2, "t2")
    \/ UnlockTable(2, "t2", FALSE)
    \/ create_index(1, "i1", "t2", PkIdx, "btree")
    \/ \E mode \in JoinModes, c \in JoinConds :
          join(1, mode, "t1", "t2", c)
    \/ \E mode \in JoinModes, c \in JoinConds, save_as \in UserTables :
          join_as(1, mode, "t1", "t2", c, save_as)

SpecMode == InitIndex /\ [][NextMode]_vars

-----------------------------------------------------------------------------
(* Reading steps off a pair of states *)

\* the step is taken by p (no other process moves, and a call that finishes
\* in this step is p's)
StepBy(p) ==
    /\ vars' # vars
    /\ \A q \in Procs \ {p} : pc'[q] = pc[q] /\ mem'[q] = mem[q]
    /\ pc'[p] # pc[p] \/ res'.p = p

\* p enters a Database method in this step / leaves one in this step
Begins(p) == StepBy(p) /\ pc[p] = "idle"
Ends(p)   == StepBy(p) /\ pc'[p] = "idle"

\* the method and table of the call p is in after a step that Begins(p)
CallOp(p) == IF pc'[p] = "idle" THEN res'.op ELSE cur'[p].op
CallT(p)  == IF pc'[p] = "idle" THEN res'.t  ELSE cur'[p].t

OwnedBy(locks, t, p)    == \E r \in locks : r.tn = t /\ r.pid = p
OwnedByOther(locks, t, p) == \E r \in locks : r.tn = t /\ r.pid # p

TableFunctions == {"cast", "insert_into", "update", "delete_from", "sort"}
TableErrors    == {"ConstraintViolation", "SchemaMismatch"}

-----------------------------------------------------------------------------
(* C1 -- Mutual exclusion: at any time at most one process holds the       *)
(* exclusive lock on a given table, a process holding it from the moment   *)
(* its lock_table returned True until its unlock_table (or a forced        *)
(* unlock).  Stated as claimed; the code violates it.                      *)
C1_MutualExclusion ==
    \A t \in UserTables : Cardinality({p \in Procs : t \in held[p]}) <= 1

(* C2 -- lock_table(T) on an existing non-meta table has exactly three     *)
(* outcomes decided by the persisted lock table read at call time, and     *)
(* returns at once: no record for T: the record (T, caller, 'x') is        *)
(* persisted and True returned; a record of the caller: False, lock table  *)
(* unchanged; a record of another pid: an error naming that pid, lock      *)
(* table unchanged.                                                        *)
C2_LockOutcomes ==
    [][\A p \in Procs :
         (Begins(p) /\ CallOp(p) = "lock_table"
            /\ mem[p].tabs[CallT(p)] # Absent)
         => LET t == CallT(p)
            IN  /\ pc'[p] = "idle"
                /\ LockRows(disk.locks, t) = {}
                   => /\ res'.ret = "True"
                      /\ disk'.locks = disk.locks \cup {LockRec(t, p)}
                /\ OwnedBy(disk.locks, t, p)
                   => res'.ret = "False" /\ disk'.locks = disk.locks
                /\ OwnedByOther(disk.locks, t, p)
                   => /\ res'.ret = "Locked"
                      /\ LockRec(t, res'.owner) \in disk.locks
                      /\ res'.owner # p
                      /\ disk'.locks = disk.locks]_vars

C2_Witness ==
    /\ res.op = "lock_table" /\ res.ret = "Locked"
    /\ res.owner # res.p
    /\ LockRec(res.t, res.owner) \in disk.locks

(* C3 -- unlock_table(T, force): with force the persisted record for T is  *)
(* removed whoever owns it; without force it is removed when the caller    *)
(* owns it; without force and with the persisted record owned by another   *)
(* pid the call fails naming the owner and the record stays.  The          *)
(* persisted records of other tables never change.  Stated as claimed;     *)
(* the code violates it.                                                   *)
C3_UnlockOutcomes ==
    [][\A p \in Procs :
         (Begins(p) /\ CallOp(p) \in {"unlock_table", "unlock_table_force"})
         => LET t == CallT(p)
            IN  /\ CallOp(p) = "unlock_table_force"
                   => LockRows(disk'.locks, t) = {}
                /\ (CallOp(p) = "unlock_table" /\ OwnedBy(disk.locks, t, p))
                   => LockRows(disk'.locks, t) = {}
                /\ (CallOp(p) = "unlock_table"
                      /\ OwnedByOther(disk.locks, t, p))
                   => /\ res'.ret = "Locked"
                      /\ LockRec(t, res'.owner) \in disk.locks
                      /\ LockRows(disk'.locks, t) = LockRows(disk.locks, t)
                /\ \A u \in UserTables \ {t} :
                      LockRows(disk'.locks, u) = LockRows(disk.locks, u)]_vars

(* C4 -- is_locked(T) returns true if and only if the persisted lock       *)
(* table holds a record for T owned by a pid other than the caller's.      *)
(* Stated as claimed; the code violates it.                                *)
C4_IsLockedIff ==
    [][\A p \in Procs :
         (Begins(p) /\ CallOp(p) = "is_locked")
         => (res'.ret = "True" <=> OwnedByOther(disk.locks, CallT(p), p))]_vars

(* C5 -- A table function (insert_into, update, delete_from, sort, cast)   *)
(* that acquired the lock itself (no record for T when it started) has     *)
(* released it once it has ended, whether it returned or failed with an    *)
(* error raised by the table operation: no record (T, caller) remains.     *)
(* Stated as claimed; the code violates it.                                *)
C5_AcquirerReleases ==
    \A p \in Procs :
       (/\ pc[p] = "idle"
        /\ res.p = p
        /\ res.op \in TableFunctions
        /\ res.own = "True"
        /\ res.ret \in {"ok"} \cup TableErrors)
       => ~OwnedBy(disk.locks, res.t, p)

(* C6 -- Reentrant ownership: a table function on T started by the process *)
(* that already owns the lock record for T does not fail on the lock, and  *)
(* the record (T, caller) is still persisted when the function has ended.  *)
C6_Reentrant ==
    [][\A p \in Procs :
         /\ (/\ Begins(p)
             /\ CallOp(p) \in TableFunctions
             /\ disk.tabs[CallT(p)] # Absent
             /\ OwnedBy(disk.locks, CallT(p), p))
            => /\ IF pc'[p] = "idle" THEN res'.own = "False"
                                     ELSE cur'[p].own = "False"
               /\ pc'[p] = "idle" => res'.ret # "Locked"
               /\ OwnedBy(disk'.locks, CallT(p), p)
         /\ (/\ Ends(p)
             /\ res'.op \in TableFunctions
             /\ res'.own = "False")
            => OwnedBy(disk'.locks, res'.t, p)]_vars

C6_Witness ==
    /\ res.op = "delete_from" /\ res.ret = "ok" /\ res.own = "False"
    /\ pc[res.p] = "idle"
    /\ LockRec(res.t, res.p) \in disk.locks

(* C7 -- Lock failure aborts before any durable mutation: when T exists    *)
(* and carries a lock record owned by another pid, insert_into, update,    *)
(* delete_from, sort, cast and drop_table on T fail with the lock error    *)
(* naming the owner, and the persisted state is what it was before.        *)
C7_LockFailureNoMutation ==
    [][\A p \in Procs :
         (/\ Begins(p)
          /\ CallOp(p) \in TableFunctions \cup {"drop_table"}
          /\ disk.tabs[CallT(p)] # Absent
          /\ OwnedByOther(disk.locks, CallT(p), p))
         => /\ pc'[p] = "idle"
            /\ res'.ret = "Locked"
            /\ res'.owner # p
            /\ LockRec(CallT(p), res'.owner) \in disk.locks
            /\ disk' = disk]_vars

C7_Witness ==
    /\ res.op = "drop_table" /\ res.ret = "Locked"
    /\ OwnedByOther(disk.locks, res.t, res.p)
    /\ disk.tabs[res.t] # Absent

(* C8 -- A rejected insert changes nothing: when the table insert raises   *)
(* (duplicate primary key, wrong arity or type) the error reaches the      *)
(* caller, T's persisted rows and free-position stack are unchanged, and a *)
(* lock acquired by this call has been released.                           *)
C8_RejectedInsert ==
    [][\A p \in Procs :
         /\ (/\ Begins(p) /\ CallOp(p) = "insert_into"
             /\ \/ pc'[p] = "abort"
                \/ pc'[p] = "idle" /\ res'.ret \in TableErrors)
            => /\ disk'.tabs = disk.tabs /\ disk'.stk = disk.stk
               /\ pc'[p] = "abort" => cur'[p].err \in TableErrors
               /\ pc'[p] = "idle"
                  => /\ res'.own # "True"
                     /\ LockRows(disk'.locks, CallT(p))
                          = LockRows(disk.locks, CallT(p))
         /\ (StepBy(p) /\ pc[p] = "abort")
            => /\ pc'[p] = "idle"
               /\ res'.op = "insert_into"
               /\ res'.ret = cur[p].err
               /\ disk'.tabs = disk.tabs /\ disk'.stk = disk.stk
               /\ ~OwnedBy(disk'.locks, res'.t, p)]_vars

C8_Witness ==
    /\ res.op = "insert_into" /\ res.ret = "ConstraintViolation"
    /\ res.own = "True"
    /\ pc[res.p] = "idle"
    /\ ~OwnedBy(disk.locks, res.t, res.p)

(* C9 -- A failed cast commits no durable mutation: when cast fails        *)
(* because a value cannot be converted, no persisted state (rows, column   *)
(* type, metadata tables, lock table) differs from before the call.        *)
(* Stated as claimed; the code violates it.                                *)
C9_FailedCastNoMutation ==
    [][\A p \in Procs :
         (/\ Begins(p) /\ CallOp(p) = "cast"
          /\ pc'[p] = "idle" /\ res'.ret = "SchemaMismatch")
         => disk' = disk]_vars

(* C10 -- Slot reuse: when delete_from has tombstoned rows, their          *)
(* positions are on T's persisted free-position stack; each following      *)
(* successful insert_into writes its row at the position on top of the     *)
(* stack and removes exactly that position, the row sequence keeping its   *)
(* length; only with an empty stack does insert_into append a position.    *)
Range(q) == {q[j] : j \in 1..Len(q)}

NewTombs(old, new) ==
    {j \in 1..Len(old) : ~IsTomb(old[j]) /\ IsTomb(new[j])}

C10_SlotReuse ==
    [][\A p \in Procs :
         \* delete_from persisting the rows, then the stack
         /\ (StepBy(p) /\ cur[p].op = "delete_from" /\ pc[p] = "unlocked")
            => LET t == cur[p].t
               IN  /\ Len(disk'.tabs[t].rows) = Len(disk.tabs[t].rows)
                   /\ NewTombs(disk.tabs[t].rows, disk'.tabs[t].rows)
                        = Range(cur[p].deleted)
                   /\ \A j \in 1..Len(disk.tabs[t].rows) :
                         \/ disk'.tabs[t].rows[j] = disk.tabs[t].rows[j]
                         \/ j \in Range(cur[p].deleted)
         /\ (StepBy(p) /\ cur[p].op = "delete_from" /\ pc[p] = "saved")
            => LET t == cur[p].t
               IN  /\ res'.ret = "ok"
                   /\ Len(disk'.stk[t])
                        = Len(disk.stk[t]) + Len(cur[p].deleted)
                   /\ Range(disk'.stk[t])
                        = Range(disk.stk[t]) \cup Range(cur[p].deleted)
                   /\ \A j \in 1..Len(disk'.tabs[t].rows) :
                         IsTomb(disk'.tabs[t].rows[j])
                            => j \in Range(disk'.stk[t])
         \* insert_into persisting the row and the popped stack
         /\ (StepBy(p) /\ cur[p].op = "insert_into" /\ pc[p] = "unlocked")
            => LET t    == cur[p].t
                   old  == disk.tabs[t].rows
                   new  == disk'.tabs[t].rows
                   st   == disk.stk[t]
               IN  IF st # <<>>
                   THEN LET top == st[Len(st)]
                        IN  /\ Len(new) = Len(old)
                            /\ IsTomb(old[top]) /\ ~IsTomb(new[top])
                            /\ \A j \in 1..Len(old) : j # top => new[j] = old[j]
                            /\ disk'.stk[t] = SubSeq(st, 1, Len(st) - 1)
                   ELSE /\ Len(new) = Len(old) + 1
                        /\ ~IsTomb(new[Len(new)])
                        /\ SubSeq(new, 1, Len(old)) = old
                        /\ disk'.stk[t] = <<>>]_vars

\* an insert that reused a slot while another free position stays stacked
C10_Witness ==
    /\ res.op = "insert_into" /\ res.ret = "ok"
    /\ disk.stk[res.t] # <<>>
    /\ \E j \in 1..Len(disk.tabs[res.t].rows) :
          ~IsTomb(disk.tabs[res.t].rows[j])

\* the positions of the tombstone rows of a table
TombPositions(tb) == {j \in 1..Len(tb.rows) : IsTomb(tb.rows[j])}

\* C11: whenever the process is between calls (every create_table,
\* insert_into and delete_from it made has completed), the insert stack
\* recorded for each stored user table holds exactly the positions of the
\* table's tombstone rows, each of them once.
C11_FreePositions ==
    pc[1] = "idle" =>
       \A t \in UserTables :
          (disk.tabs[t] # Absent /\ t \in DOMAIN disk.stk) =>
             LET stack == disk.stk[t]
             IN  /\ {stack[j] : j \in 1..Len(stack)}
                      = TombPositions(disk.tabs[t])
                 /\ Len(stack) = Cardinality(TombPositions(disk.tabs[t]))

\* C12: for a table whose name begins with 'meta', lock_table returns at
\* once without a record and without an error, is_locked returns False,
\* and delete_from on it proceeds whatever the lock table holds; no lock
\* table, persisted or in a process's memory, ever holds a record naming
\* an internal table.
C12_MetaExempt ==
    /\ [](\A r \in disk.locks : ~IsMeta(r.tn))
    /\ [](\A p \in Procs : \A r \in mem[p].locks : ~IsMeta(r.tn))
    /\ [][\A p \in Procs :
            (Begins(p) /\ IsMeta(CallT(p)))
            => /\ pc'[p] = "idle"
               /\ res'.ret # "Locked"
               /\ CallOp(p) = "lock_table"
                  => res'.ret = "None" /\ disk' = disk /\ held' = held
               /\ CallOp(p) = "is_locked"
                  => res'.ret = "False" /\ disk' = disk
               /\ CallOp(p) = "delete_from"
                  => res'.ret = "ok" /\ disk'.locks \subseteq disk.locks]_vars

\* rows were deleted from an internal table while another process's lock
\* records were persisted
C12_Witness ==
    /\ res.op = "delete_from" /\ res.t = "meta_length" /\ res.ret = "ok"
    /\ \E r \in disk.locks : r.pid # res.p

\* names of the indexes an image registers on table t
IndexesOn(idx, t) == {r.name : r \in {x \in idx : x.tn = t}}

\* C13: when drop_table(T) completes (T was not locked by another process
\* when it was called), T is absent from the caller's tables
\* and from the directory, meta_locks, meta_length, meta_insert_stack and
\* meta_indexes hold no row naming T, and no artifact of an index that was
\* registered on T is left; no step of the call changes another table,
\* another table's index rows or another table's index artifacts.
C13_DropCascades ==
    [][\A p \in Procs :
         /\ (Ends(p) /\ res'.op = "drop_table" /\ res'.ret = "ok")
            => LET t == res'.t
               IN  /\ disk'.tabs[t] = Absent
                   /\ mem'[p].tabs[t] = Absent
                   /\ LockRows(disk'.locks, t) = {}
                   /\ t \notin DOMAIN disk'.len
                   /\ t \notin DOMAIN disk'.stk
                   /\ IndexesOn(disk'.idx, t) = {}
                   /\ \A a \in disk'.art : a.name \notin IndexesOn(disk.idx, t)
         /\ (StepBy(p) /\ cur[p].op = "drop_table")
            => LET t == cur[p].t
               IN  /\ \A u \in UserTables \ {t} :
                         disk'.tabs[u] = disk.tabs[u]
                   /\ {r \in disk'.idx : r.tn # t}
                        = {r \in disk.idx : r.tn # t}
                   /\ {a \in disk'.art : a.name \notin IndexesOn(disk.idx, t)}
                        = {a \in disk.art : a.name \notin IndexesOn(disk.idx, t)}
         /\ (Begins(p) /\ CallOp(p) = "drop_table")
            => /\ \A u \in UserTables \ {CallT(p)} :
                     disk'.tabs[u] = disk.tabs[u]
               /\ disk'.idx = disk.idx /\ disk'.art = disk.art]_vars

\* the rows of a meta_indexes image are well-formed over the tables tabs
RegistryOk(idx, tabs) ==
    \A r \in idx :
       /\ tabs[r.tn] # Absent
       /\ r.col = PkIdx          \* the tables have no unique column
       /\ r.type \in {"btree", "hash"}
       /\ \A q \in idx : (q.name = r.name \/ (q.tn = r.tn /\ q.col = r.col))
                            => q = r

\* C14: whenever every create_index, drop_index and drop_table call made
\* so far has completed, each row of meta_indexes, persisted and in the
\* caller's memory, names an existing table and a column that is its
\* primary key or a unique column, has index_type 'btree' or 'hash', and
\* shares neither its index name nor its (table, column) pair with another
\* row.
C14_IndexRegistry ==
    pc[1] = "idle" => /\ RegistryOk(disk.idx, disk.tabs)
                      /\ RegistryOk(mem[1].idx, mem[1].tabs)

\* both tables carry an index and a further create_index has just been
\* rejected
C14_Witness ==
    /\ pc[1] = "idle"
    /\ Cardinality(disk.idx) = 2
    /\ res.op = "create_index"
    /\ res.ret \in {"IndexNameExists", "ColumnIndexed", "TypeError",
                     "BadIndexType"}

\* the join arguments of a step in which p calls join with mode 'inl'
JoinsInl(p) == Begins(p) /\ CallOp(p) = "join_inl" /\ res'.ret # "Locked"
JoinCond    == [l |-> res'.arg.l, r |-> res'.arg.r]

\* meta_indexes registers an index on the join column of one of the tables
IndexOnJoinColumn(idx, lt, rt, c) ==
    \E r \in idx : \/ (r.tn = lt /\ r.col = c.l)
                    \/ (r.tn = rt /\ r.col = c.r)

\* the (key, position) pairs of the non-tombstone rows of a table
CurrentEntries(tb, col) ==
    {<<tb.rows[j][col], j>> : j \in {i \in 1..Len(tb.rows) :
                                       ~IsTomb(tb.rows[i])}}

\* the artifact join(mode='inl') consults (the right table's when it has
\* an index on the join column, else the left table's) holds the pairs of
\* the table's present rows
ConsultedIndexCurrent(d, lt, rt, c) ==
    LET t == IF \E r \in d.idx : r.tn = rt /\ r.col = c.l THEN rt ELSE lt
    IN  \E r \in d.idx : \E a \in d.art :
           /\ r.tn = t /\ r.col = c.l /\ a.name = r.name
           /\ a.entries = CurrentEntries(d.tabs[t], c.l)

C16_InlUnavailable ==
    [][\A p \in Procs :
         (JoinsInl(p)
            /\ ~IndexOnJoinColumn(disk.idx, res'.t, res'.arg.rt, JoinCond))
         => /\ res'.ret = "IndexUnavailable"
            /\ res'.rows = {}
            /\ disk' = disk]_vars

\* C17: operations are serialized one by one: no step of a table function
\* on a table T1 removes a row another process has persisted in a
\* different table T2 (an insert committed into T2 is still there when a
\* concurrent operation on T1 completes).
C17_CommittedInsertKept ==
    [][\A p \in Procs :
         (StepBy(p) /\ cur[p].op \in TableFunctions)
         => \A u \in UserTables \ {cur[p].t} :
               LiveRows(disk.tabs[u]) \subseteq LiveRows(disk'.tabs[u])]_vars

\* C18: a persisted lock record (T, P) stays until P itself takes a step
\* that releases it or some process calls unlock_table(T, force=True): no
\* other operation of another process removes it, and while it stays every
\* lock_table(T) of another process fails naming P.
C18_LockRecordLifetime ==
    [][\A r \in disk.locks :
         /\ r \notin disk'.locks
            => \/ StepBy(r.pid)
               \/ \E p \in Procs :
                     /\ Begins(p) /\ CallOp(p) = "unlock_table_force"
                     /\ CallT(p) = r.tn
         /\ \A p \in Procs \ {r.pid} :
               (Begins(p) /\ CallOp(p) = "lock_table" /\ CallT(p) = r.tn)
               => res'.ret = "Locked" /\ res'.owner = r.pid]_vars

\* C19: no step of an insert_into, update, delete_from, sort or cast
\* changes a stored index artifact or a row of meta_indexes: an index
\* stays as create_index built it.
C19_IndexFrozen ==
    [][\A p \in Procs :
         (StepBy(p) /\ (\/ cur[p].op \in TableFunctions
                         \/ (Begins(p) /\ CallOp(p) \in TableFunctions)))
         => disk'.idx = disk.idx /\ disk'.art = disk.art]_vars

\* a table function has completed on an indexed table and the artifact no
\* longer matches the rows of the table
C19_Witness ==
    /\ res.op \in TableFunctions /\ res.ret = "ok"
    /\ \E r \in disk.idx : \E a \in disk.art :
          /\ r.tn = res.t /\ a.name = r.name
          /\ a.entries # CurrentEntries(disk.tabs[r.tn], r.col)

\* p's call before this step was an update of t that raised a uniqueness
\* violation, and no call has finished since
AfterFailedUpdate(p, t) ==
    /\ res.p = p /\ res.op = "update" /\ res.t = t
    /\ res.ret = "ConstraintViolation"

\* C20 as claimed: the rows an update wrote before it failed on a
\* uniqueness violation remain in the table state the later operations on
\* the table observe: the next table function of the process (sort, which
\* rewrites no row) works on the rows the failed update left.
C20_PartialUpdateObserved ==
    [][\A p \in Procs :
         (Begins(p) /\ CallOp(p) = "sort" /\ pc'[p] # "idle"
            /\ AfterFailedUpdate(p, CallT(p)))
         => mem'[p].tabs[CallT(p)].rows = mem[p].tabs[CallT(p)].rows]_vars

\* C20 amended: an update that fails on a uniqueness violation stops and
\* leaves the rows it wrote before mutated only in the caller's in-memory
\* table: the persisted table is unchanged by the call; a later table
\* function of the caller on the table reloads it and works on the
\* persisted, unmutated rows; a later create_index, which does not
\* reload, reads the in-memory rows and persists them.
C20_PartialUpdateInMemory ==
    [][\A p \in Procs :
         /\ (Begins(p) /\ Ends(p) /\ CallOp(p) = "update"
                /\ res'.ret = "ConstraintViolation")
            => disk'.tabs = disk.tabs
         /\ (Begins(p) /\ CallOp(p) = "sort" /\ pc'[p] # "idle")
            => mem'[p].tabs[CallT(p)] = disk.tabs[CallT(p)]
         /\ (Begins(p) /\ CallOp(p) = "create_index" /\ res'.ret = "ok")
            => /\ disk'.tabs[CallT(p)] = mem[p].tabs[CallT(p)]
               /\ \E a \in disk'.art :
                     a.entries = construct_index(mem[p].tabs[CallT(p)], PkIdx)
        ]_vars

\* an update has failed after writing a row: the caller's in-memory table
\* differs from the persisted one
C20_Witness ==
    /\ res.op = "update" /\ res.ret = "ConstraintViolation"
    /\ pc[res.p] = "idle"
    /\ mem[res.p].tabs[res.t].rows # disk.tabs[res.t].rows
    /\ \E j \in 1..Len(disk.tabs[res.t].rows) :
          /\ mem[res.p].tabs[res.t].rows[j] # disk.tabs[res.t].rows[j]
          /\ ~IsTomb(mem[res.p].tabs[res.t].rows[j])

\* what the directory holds of a user table: its rows, its row count and
\* its free-position stack
PersistedOf(d, t) ==
    [tab |-> d.tabs[t],
     len |-> IF t \in DOMAIN d.len THEN d.len[t] ELSE -1,
     stk |-> IF t \in DOMAIN d.stk THEN d.stk[t] ELSE <<-1>>]

\* C21: a step of insert_into, update, delete_from, sort or cast that
\* changes the persisted rows, row count or free-position stack of its
\* table T is taken while the persisted lock table holds the record of T
\* owned by the process taking it: nothing of T is persisted after the
\* lock was released.
C21_WritesUnderLock ==
    [][\A p \in Procs :
         (StepBy(p) /\ cur[p].op \in TableFunctions
            /\ PersistedOf(disk', cur[p].t) # PersistedOf(disk, cur[p].t))
         => LockRec(cur[p].t, p) \in disk.locks]_vars

\* C22: create_table(T) called while the persisted lock table holds a
\* record of T owned by another process fails with the lock error and
\* leaves the table T, its rows and its metadata rows as they were.
C22_CreateChecksLock ==
    [][\A p \in Procs :
         (Begins(p) /\ CallOp(p) = "create_table"
            /\ OwnedByOther(disk.locks, CallT(p), p))
         => /\ res'.ret = "Locked"
            /\ PersistedOf(disk', CallT(p)) = PersistedOf(disk, CallT(p))]_vars

\* the row create_index has added to the caller's meta_indexes in this step
NewIndexRow(p) == CHOOSE r \in mem'[p].idx \ mem[p].idx : TRUE

\* C23: right after a create_index that succeeded, the stored artifact of
\* the new index holds exactly the pairs (key, position) of the
\* non-tombstone rows of the table as persisted by the call, key being the
\* row's value in the indexed column and position its place in the row
\* sequence, tombstones counted; a tombstone row gives no entry.
C23_IndexBuild ==
    [][\A p \in Procs :
         (Begins(p) /\ CallOp(p) = "create_index" /\ res'.ret = "ok")
         => /\ Cardinality(mem'[p].idx \ mem[p].idx) = 1
            /\ LET r  == NewIndexRow(p)
                   tb == disk'.tabs[r.tn]
                   on == {a \in disk'.art : a.name = r.name}
               IN  /\ r \in disk'.idx
                   /\ Cardinality(on) = 1
                   /\ \A a \in on :
                         /\ a.entries = CurrentEntries(tb, r.col)
                         /\ Cardinality(a.entries)
                              = Len(tb.rows) - Cardinality(TombPositions(tb))
                         /\ \A e \in a.entries : e[2] \notin TombPositions(tb)
           ]_vars

\* an index has just been built on a table that has a tombstone row and a
\* live row
C23_Witness ==
    /\ res.op = "create_index" /\ res.ret = "ok"
    /\ TombPositions(disk.tabs[res.t]) # {}
    /\ \E r \in disk.idx : \E a \in disk.art :
          /\ r.tn = res.t /\ a.name = r.name
          /\ a.entries # {}
          /\ a.entries = CurrentEntries(disk.tabs[res.t], r.col)

\* C24: whenever the process is between calls, meta_length has a row for
\* every stored user table, and that row's no_of_rows is the number of
\* non-tombstone rows of the table, whatever the rows hold (0 and the
\* empty string included).
C24_RowCount ==
    pc[1] = "idle" =>
       \A t \in UserTables :
          disk.tabs[t] # Absent =>
             /\ t \in DOMAIN disk.len
             /\ disk.len[t] = Len(disk.tabs[t].rows)
                                - Cardinality(TombPositions(disk.tabs[t]))

\* a lock table image has at most one record per table, all of mode 'x'
LocksWellFormed(locks) ==
    \A r \in locks :
       /\ r.mode = "x"
       /\ \A q \in locks : q.tn = r.tn => q = r

\* p's lock_table(t) returns True in this step
ReturnsTrue(p, t) ==
    /\ StepBy(p) /\ Ends(p)
    /\ res'.op = "lock_table" /\ res'.t = t /\ res'.ret = "True"

\* C25: under any interleaving the persisted lock table (and every
\* process's copy of it) has at most one record per table name, every
\* record has mode 'x', and every record names a process whose
\* lock_table on that table returned True: lock tables start empty, and a
\* record that a step adds to the persisted table or to a copy is either
\* the one of a lock_table returning True in that step to the process it
\* names, or was copied from the persisted table or a copy.
C25_LockTableWellFormed ==
    /\ [](LocksWellFormed(disk.locks))
    /\ [](\A p \in Procs : LocksWellFormed(mem[p].locks))
    /\ [][/\ \A r \in disk'.locks \ disk.locks :
               \/ ReturnsTrue(r.pid, r.tn)
               \/ \E q \in Procs : r \in mem[q].locks
          /\ \A q \in Procs : \A r \in mem'[q].locks \ mem[q].locks :
               \/ ReturnsTrue(r.pid, r.tn)
               \/ r \in disk.locks]_vars

\* both processes were answered True for the same table in turn, and one
\* record of it is persisted
C25_Witness ==
    /\ \E t \in UserTables : \A p \in Procs : t \in held[p]
    /\ Cardinality(disk.locks) = 1
    /\ res.op = "lock_table" /\ res.ret = "True"

\* p's select or join without save_as is this step
Reads(p) ==
    /\ Begins(p) /\ Ends(p) /\ res'.p = p
    /\ res'.op \in {"select", "join_inner", "join_inl"}
    /\ res'.arg.as = "None"

\* the tables the read names
ReadTables == IF res'.op = "select" THEN {res'.t} ELSE {res'.t, res'.arg.rt}

\* C26: a select or a join called without save_as leaves every persisted
\* table, metadata table, index artifact and the persisted lock table as
\* they were, puts no lock record anywhere (the caller's copy of the lock
\* table becomes the persisted one), and when another process has a
\* record on a table it names it aborts and returns no rows.
C26_ReadsDoNotMutate ==
    [][\A p \in Procs :
         Reads(p) =>
            /\ disk' = disk
            /\ mem'[p].locks = disk.locks
            /\ held' = held
            /\ (\E t \in ReadTables : OwnedByOther(disk.locks, t, p))
                  => (res'.ret = "Locked" /\ res'.rows = {})]_vars

\* a select of a table that is indexed and locked by the other process was
\* aborted
C26_Witness ==
    /\ res.op = "select" /\ res.ret = "Locked"
    /\ OwnedByOther(disk.locks, res.t, res.p)
    /\ has_index(mem[res.p], res.t)
    /\ disk.art # {}

\* p's create_index raises in this step
CreateIndexRejected(p) ==
    /\ Begins(p) /\ Ends(p) /\ res'.p = p
    /\ res'.op = "create_index" /\ res'.ret # "ok"

JoinsUnknownMode(p) ==
    /\ Begins(p) /\ Ends(p) /\ res'.p = p
    /\ res'.op \in {"join_" \o mode : mode \in JoinModes \ KnownModes}

\* no result table and nothing saved: no rows are returned, the directory
\* is as before, and the caller's tables are the ones load_database gives
NothingProduced(p) ==
    /\ res'.rows = {}
    /\ disk' = disk
    /\ mem'[p].tabs = load_database(mem[p], disk).tabs
    /\ mem'[p].attrs = mem[p].attrs

\* C28 as stated: a join in a mode outside {inner, left, right, full, inl,
\* sm} fails with the unsupported-mode error, produces no result table and
\* saves nothing, with or without save_as.
C28_UnknownMode ==
    [][\A p \in Procs :
         JoinsUnknownMode(p) =>
            /\ res'.ret = "NotImplementedError"
            /\ NothingProduced(p)]_vars

\* C28 amended: a join in a mode outside {inner, left, right, full, inl,
\* sm} produces no result table and saves nothing, with or without
\* save_as; it fails with the unsupported-mode error when no other process
\* has a lock record on either table and both tables exist, with the lock
\* error when another process has one, and with a KeyError otherwise.
C28_UnknownModeUnlocked ==
    [][\A p \in Procs :
         JoinsUnknownMode(p) =>
            /\ NothingProduced(p)
            /\ res'.ret =
                 IF \E t \in {res'.t, res'.arg.rt} :
                       OwnedByOther(disk.locks, t, p)
                 THEN "Locked"
                 ELSE IF \E t \in {res'.t, res'.arg.rt} :
                            mem'[p].tabs[t] = Absent
                 THEN "KeyError"
                 ELSE "NotImplementedError"]_vars

\* a join with save_as in an unknown mode was refused for its mode by a
\* process that has saved the result of an earlier join
C28_Witness ==
    /\ res.op = "join_cross" /\ res.arg.as # "None"
    /\ res.ret = "NotImplementedError"
    /\ mem[res.p].attrs # {}

====
